---------------------------- MODULE Spec2Model ----------------------------
(***************************************************************************)
(* A model of lc.py, an untyped lambda-calculus interpreter: the           *)
(* expression classes and their rendering, the tokenizer and the           *)
(* recursive-descent parser, substitution, the one-step reducer            *)
(* beta_reduce, the fixed-point loop interpret, and the two line drivers    *)
(* (the REPL and the file reader) with the global name context.            *)
(*                                                                         *)
(* Text is a sequence of one-character strings, so that rendering,         *)
(* tokenizing and parsing are computed character by character.             *)
(***************************************************************************)
EXTENDS Naturals, Sequences, FiniteSets, TLC

VARIABLES
    mode,         \* "repl" (lc.py --repl), "batch" (lc.py FILE) or "call" (a direct call)
    context,      \* the global dict context: name -> expression
    text,         \* the text last handed to the handler / parse_expression
    tokens,       \* parse_expression's token list as parse left it
    parsed_expr,  \* the expression parse_expression returned, or None
    error,        \* the exception the last handler raised, or None
    expr,         \* interpret's local expr
    prev_expr,    \* interpret's local prev_expr
    steps,        \* iterations of interpret's loop in the current call
    result,       \* the value interpret last returned, or None
    output,       \* the last line printed
    pc            \* where the program is

vars == <<mode, context, text, tokens, parsed_expr, error, expr, prev_expr,
          steps, result, output, pc>>

----------------------------------------------------------------------------
(* Expressions: class Var, class Lambda, class App.                        *)

None == [tag |-> "None"]

Var(name) == [tag |-> "Var", name |-> name]

Lambda(param, body) == [tag |-> "Lambda", param |-> param, body |-> body]

App(func, arg) == [tag |-> "App", func |-> func, arg |-> arg]

isVar(e) == e.tag = "Var"

isLambda(e) == e.tag = "Lambda"

isApp(e) == e.tag = "App"

(* __eq__ of the three classes: same class and equal fields, recursively.  *)
RECURSIVE expr_eq(_, _)
expr_eq(a, b) ==
    CASE isVar(a) -> isVar(b) /\ a.name = b.name
      [] isLambda(a) -> isLambda(b) /\ expr_eq(a.param, b.param)
                                   /\ expr_eq(a.body, b.body)
      [] isApp(a) -> isApp(b) /\ expr_eq(a.func, b.func) /\ expr_eq(a.arg, b.arg)
      [] OTHER -> FALSE

RECURSIVE render(_)

(* __repr__ with App's f"({self.func}{self.arg})": no blank between the two. *)
render_without_blank(e) ==
    CASE isVar(e) -> e.name
      [] isLambda(e) ->
            <<"(", "λ">> \o render(e.param) \o <<".", " ">> \o render(e.body) \o <<")">>
      [] isApp(e) ->
            <<"(">> \o render(e.func) \o render(e.arg) \o <<")">>

(* __repr__ of the three classes, as text.                                 *)
render(e) ==
    CASE isVar(e) -> e.name
      [] isLambda(e) ->
            <<"(", "λ">> \o render(e.param) \o <<".", " ">> \o render(e.body) \o <<")">>
      [] isApp(e) ->
            <<"(">> \o render(e.func) \o <<" ">> \o render(e.arg) \o <<")">>

----------------------------------------------------------------------------
(* The tokenizer: re.finditer(r'λ|[().]|[^\s()λ.]+', expression).          *)

IsSpace(c) == c = " "

IsPunct(c) == c \in {"(", ")", "."}

IsLambdaChar(c) == c = "λ"

IsIdentChar(c) == ~IsSpace(c) /\ ~IsPunct(c) /\ ~IsLambdaChar(c)

(* A token is the tuple (token, start_pos, end_pos), offsets from 0.       *)
Token(token, start_pos, end_pos) == <<token, start_pos, end_pos>>

(* The end of the longest run [^\s()λ.]+ that starts at offset pos.        *)
RECURSIVE RunEnd(_, _)
RunEnd(s, pos) ==
    IF pos < Len(s) /\ IsIdentChar(s[pos + 1]) THEN RunEnd(s, pos + 1) ELSE pos

RECURSIVE tokenize_from(_, _)
tokenize_from(s, pos) ==
    IF pos >= Len(s) THEN <<>>
    ELSE LET c == s[pos + 1] IN
         IF IsSpace(c) THEN tokenize_from(s, pos + 1)
         ELSE LET end_pos == IF IsIdentChar(c) THEN RunEnd(s, pos) ELSE pos + 1
              IN  <<Token(SubSeq(s, pos + 1, end_pos), pos, end_pos)>>
                     \o tokenize_from(s, end_pos)

tokenize(expression) == tokenize_from(expression, 0)

----------------------------------------------------------------------------
(* The parser.  A call returns the expression and the tokens it left, or   *)
(* the SyntaxError it raised.                                              *)

Returned(e, rest) == [ok |-> TRUE, expr |-> e, tokens |-> rest, error |-> None]

SyntaxError(msg, pos) ==
    [ok |-> FALSE, expr |-> None, tokens |-> <<>>,
     error |-> [tag |-> "SyntaxError", msg |-> msg, pos |-> pos]]

RECURSIVE parse(_), parse_single(_), parse_application(_, _)

(* parse_single: one variable, abstraction or parenthesized expression.    *)
parse_single(toks) ==
    LET tok  == Head(toks)
        rest == Tail(toks)
    IN  IF tok[1] = <<"λ">> THEN
            IF rest = <<>> THEN SyntaxError("Expected parameter after 'λ'", tok[2])
            ELSE LET param   == Head(rest)
                     afterp  == Tail(rest)
                 IN  IF afterp = <<>> \/ afterp[1][1] # <<".">>
                     THEN SyntaxError("Expected '.' after lambda parameter", param[3])
                     ELSE LET body == parse(Tail(afterp))
                          IN  IF ~body.ok THEN body
                              ELSE Returned(Lambda(Var(param[1]), body.expr), body.tokens)
        ELSE IF tok[1] = <<"(">> THEN
            LET inner == parse(rest)
            IN  IF ~inner.ok THEN inner
                ELSE IF inner.tokens = <<>> \/ inner.tokens[1][1] # <<")">>
                THEN SyntaxError("Expected ')'", tok[2])
                ELSE Returned(inner.expr, Tail(inner.tokens))
        ELSE Returned(Var(tok[1]), rest)

(* The while loop of parse: left-associative application.                  *)
parse_application(e, toks) ==
    IF toks # <<>> /\ toks[1][1] \notin {<<")">>, <<".">>}
    THEN LET next_expr == parse_single(toks)
         IN  IF ~next_expr.ok THEN next_expr
             ELSE parse_application(App(e, next_expr.expr), next_expr.tokens)
    ELSE Returned(e, toks)

parse(toks) ==
    IF toks = <<>> THEN SyntaxError("Empty expression", 0)
    ELSE LET first == parse_single(toks)
         IN  IF ~first.ok THEN first
             ELSE parse_application(first.expr, first.tokens)

parse_expression(expression) == parse(tokenize(expression))

----------------------------------------------------------------------------
(* The global context and add_to_context.                                  *)

EmptyContext == [n \in {} |-> None]

add_to_context(ctx, name, e) ==
    [n \in (DOMAIN ctx) \cup {name} |-> IF n = name THEN e ELSE ctx[n]]

----------------------------------------------------------------------------
(* Substitution and renaming.                                              *)

Renamed(name) == name \o <<"_", "r", "e", "n", "a", "m", "e", "d">>

InList(x, list) == \E i \in 1..Len(list) : list[i] = x

(* alpha_rename(expr, existing_vars); existing_vars is a list of names.    *)
RECURSIVE alpha_rename(_, _)
alpha_rename(e, existing_vars) ==
    CASE isVar(e) ->
            IF InList(e.name, existing_vars) THEN Var(Renamed(e.name)) ELSE e
      [] isLambda(e) ->
            LET new_param_name ==
                    IF InList(e.param.name, existing_vars)
                    THEN Renamed(e.param.name) ELSE e.param.name
            IN  Lambda(Var(new_param_name),
                       alpha_rename(e.body, Append(existing_vars, new_param_name)))
      [] isApp(e) ->
            App(alpha_rename(e.func, existing_vars), alpha_rename(e.arg, existing_vars))

(* substitute_named(expr, name, value): no caller in lc.py.                *)
RECURSIVE substitute_named(_, _, _)
substitute_named(e, name, value) ==
    CASE isVar(e) ->
            IF e.name = name THEN alpha_rename(value, <<name>>) ELSE e
      [] isLambda(e) ->
            IF e.param.name = name THEN e
            ELSE Lambda(e.param, substitute_named(e.body, name, value))
      [] isApp(e) ->
            App(substitute_named(e.func, name, value),
                substitute_named(e.arg, name, value))
      [] OTHER -> e

(* substitute(expr, var, value): var is a Var.                             *)
RECURSIVE substitute(_, _, _)

(* substitute leaving the argument of an application as it is.             *)
substitute_func_only(e, var, value) ==
    CASE isVar(e) ->
            IF e.name = var.name THEN value ELSE e
      [] isLambda(e) ->
            IF e.param.name = var.name THEN e
            ELSE Lambda(e.param, substitute(e.body, var, value))
      [] isApp(e) ->
            App(substitute(e.func, var, value), e.arg)
      [] OTHER -> e

substitute(e, var, value) ==
    CASE isVar(e) ->
            IF e.name = var.name THEN value ELSE e
      [] isLambda(e) ->
            IF e.param.name = var.name THEN e
            ELSE Lambda(e.param, substitute(e.body, var, value))
      [] isApp(e) ->
            App(substitute(e.func, var, value), substitute(e.arg, var, value))
      [] OTHER -> e

----------------------------------------------------------------------------
(* beta_reduce(expr): one step, reading the global context.                *)

RECURSIVE beta_reduce(_)

(* beta_reduce with the abstraction case returning the stepped body alone. *)
beta_reduce_drops_lambda(e) ==
    IF isVar(e) /\ e.name \in DOMAIN context THEN context[e.name]
    ELSE IF isApp(e) THEN
        IF isLambda(e.func) THEN substitute(e.func.body, e.func.param, e.arg)
        ELSE App(beta_reduce(e.func), beta_reduce(e.arg))
    ELSE IF isLambda(e) THEN beta_reduce(e.body)
    ELSE e

(* beta_reduce stepping only the argument of an application.               *)
beta_reduce_skips_func(e) ==
    IF isVar(e) /\ e.name \in DOMAIN context THEN context[e.name]
    ELSE IF isApp(e) THEN
        IF isLambda(e.func) THEN substitute(e.func.body, e.func.param, e.arg)
        ELSE App(e.func, beta_reduce(e.arg))
    ELSE IF isLambda(e) THEN Lambda(e.param, beta_reduce(e.body))
    ELSE e

beta_reduce(e) ==
    IF isVar(e) /\ e.name \in DOMAIN context THEN context[e.name]
    ELSE IF isApp(e) THEN
        IF isLambda(e.func) THEN substitute(e.func.body, e.func.param, e.arg)
        ELSE LET reduced_func == beta_reduce(e.func)
                 reduced_arg  == beta_reduce(e.arg)
             IN  App(reduced_func, reduced_arg)
    ELSE IF isLambda(e) THEN Lambda(e.param, beta_reduce(e.body))
    ELSE e

----------------------------------------------------------------------------
(* str.strip, str.split and str.lower, as the drivers use them.            *)

RECURSIVE lstrip(_)
lstrip(s) == IF s # <<>> /\ IsSpace(Head(s)) THEN lstrip(Tail(s)) ELSE s

RECURSIVE rstrip(_)
rstrip(s) ==
    IF s # <<>> /\ IsSpace(s[Len(s)]) THEN rstrip(SubSeq(s, 1, Len(s) - 1)) ELSE s

strip(s) == rstrip(lstrip(s))

(* s.split(sep): the pieces of s between the occurrences of sep.           *)
RECURSIVE split(_, _)
split(s, sep) ==
    IF ~InList(sep, s) THEN <<s>>
    ELSE LET i == CHOOSE k \in 1..Len(s) :
                      s[k] = sep /\ \A j \in 1..(k - 1) : s[j] # sep
         IN  <<SubSeq(s, 1, i - 1)>> \o split(SubSeq(s, i + 1, Len(s)), sep)

lower_char(c) ==
    CASE c = "E" -> "e" [] c = "X" -> "x" [] c = "I" -> "i" [] c = "T" -> "t"
      [] OTHER -> c

lower(s) == [i \in 1..Len(s) |-> lower_char(s[i])]

----------------------------------------------------------------------------
(* Bounds and input sets.                                                  *)

(* interpret has no step limit; the model stops following a call after     *)
(* MaxSteps iterations of its loop.                                        *)
MaxSteps == 4

(* Expressions of at most MaxSize nodes are the arguments of interpret.    *)
MaxSize == 4

(* Expressions of at most MaxCtxSize nodes are bound in the context.       *)
MaxCtxSize == 2

(* Every text of at most MaxLen characters is handed to parse_expression.  *)
MaxLen == 5

Names == {<<"x">>, <<"y">>}

Alphabet == {"λ", "(", ")", ".", " ", "x", "y"}

RECURSIVE TermsOfSize(_)
TermsOfSize(k) ==
    IF k = 1 THEN {Var(n) : n \in Names}
    ELSE {Lambda(Var(n), b) : n \in Names, b \in TermsOfSize(k - 1)}
         \cup UNION {{App(f, a) : f \in TermsOfSize(i), a \in TermsOfSize(k - 1 - i)}
                       : i \in 1..(k - 2)}

Terms(k) == UNION {TermsOfSize(i) : i \in 1..k}

(* Three expressions larger than MaxSize that interpret is also called on:  *)
(* (λx. x x) (λx. x x) and ((λx. x) x) ((λx. x) y) here, and Capturing.       *)
SelfApp == Lambda(Var(<<"x">>), App(Var(<<"x">>), Var(<<"x">>)))

Omega == App(SelfApp, SelfApp)

Identity == Lambda(Var(<<"x">>), Var(<<"x">>))

TwoRedexes == App(App(Identity, Var(<<"x">>)), App(Identity, Var(<<"y">>)))

(* (λx. λy. x) y *)
Capturing ==
    App(Lambda(Var(<<"x">>), Lambda(Var(<<"y">>), Var(<<"x">>))), Var(<<"y">>))

ReduceTerms == Terms(MaxSize) \cup {Omega, TwoRedexes, Capturing}

Contexts ==
    UNION {[D -> Terms(MaxCtxSize)] : D \in SUBSET Names}

(* A fully parenthesized text of an expression: every abstraction and      *)
(* every application in parentheses, with or without the optional blanks.  *)
RECURSIVE Write(_, _, _)
Write(e, gap, pad) ==
    CASE isVar(e) -> e.name
      [] isLambda(e) ->
            <<"(">> \o pad \o <<"λ">> \o e.param.name \o <<".">> \o gap
                \o Write(e.body, gap, pad) \o pad \o <<")">>
      [] isApp(e) ->
            <<"(">> \o pad \o Write(e.func, gap, pad) \o <<" ">>
                \o Write(e.arg, gap, pad) \o pad \o <<")">>

Blanks == {<<>>, <<" ">>}

WrittenTexts == {Write(e, gap, pad) : e \in Terms(MaxSize), gap \in Blanks, pad \in Blanks}

ShortTexts == UNION {[1..n -> Alphabet] : n \in 0..MaxLen}

ParseTexts == ShortTexts \cup WrittenTexts

(* The lines the drivers are fed.                                          *)
ScriptLines ==
    { <<"I", " ", "=", " ", "λ", "x", ".", " ", "x">>,
      <<"x", " ", "=", " ", "y">>,
      <<"x", "=", "x", " ", "x">>,
      <<"I", " ", "y">>,
      <<"λ", "x", ".", " ", "x">>,
      <<"x">>,
      <<"(", "λ", "x", ".", " ", "x", " ", "x", ")", " ",
        "(", "λ", "x", ".", " ", "x", " ", "x", ")">>,
      <<"(", "λ", "x", ".", " ", "λ", "y", ".", " ", "x", ")", " ", "y">>,
      <<"I", " ", "=", " ", "λ", "x">>,
      <<"I", " ", "=", " ", "(", "y">>,
      <<"x", " ", "=">>,
      <<"I", " ", "=", " ", "y", " ", "=", " ", "x">>,
      <<"λ">>,
      <<"(", "x">>,
      <<>>,
      <<" ", "#", " ", "x">>,
      <<"E", "x", "i", "t">> }

----------------------------------------------------------------------------
(* What is printed.                                                        *)

Printed(label, t) == [label |-> label, text |-> t]

(* print("Error:", e) in the REPL; the traceback of an uncaught exception  *)
(* in the file driver.                                                     *)
Report(e) == Printed(IF mode = "repl" THEN "Error:" ELSE "Traceback", <<>>)

AfterError == IF mode = "repl" THEN "read" ELSE "crashed"

ValueError == [tag |-> "ValueError", msg |-> "too many values to unpack", pos |-> 0]

----------------------------------------------------------------------------
(* The drivers: repl() and the file loop of __main__.                      *)

(* The line as the handler sees it: the file loop strips it first.         *)
Line(l) == IF mode = "batch" THEN strip(l) ELSE l

IsExit(l) == mode = "repl" /\ lower(l) = <<"e", "x", "i", "t">>

IsSkipped(l) ==
    IF mode # "batch" THEN FALSE
    ELSE IF strip(l) = <<>> THEN TRUE ELSE Head(strip(l)) = "#"

IsDefinition(l) == InList("=", Line(l))

(* The REPL reads 'exit'; the file loop reaches the end of the file.       *)
Exit ==
    /\ pc = "read"
    /\ \/ \E l \in ScriptLines : IsExit(l) /\ text' = l
       \/ mode = "batch" /\ text' = text
    /\ pc' = "exited"
    /\ UNCHANGED <<mode, context, tokens, parsed_expr, error, expr, prev_expr,
                   steps, result, output>>

(* The file loop skips blank lines and comments.                           *)
Skip(l) ==
    /\ pc = "read"
    /\ IsSkipped(l)
    /\ text' = l
    /\ UNCHANGED <<mode, context, tokens, parsed_expr, error, expr, prev_expr,
                   steps, result, output, pc>>

(* The definition handler binding the name before the right-hand side has *)
(* parsed: a failed parse leaves the name bound to what parse returned.    *)
Definition_binds_before_parse(l) ==
    /\ pc = "read"
    /\ ~IsExit(l) /\ ~IsSkipped(l)
    /\ IsDefinition(l)
    /\ text' = l
    /\ LET parts == split(Line(l), "=")
           name  == strip(parts[1])
           r     == parse_expression(strip(parts[Len(parts)]))
       IN  /\ context' = add_to_context(context, name, r.expr)
           /\ error' = IF Len(parts) # 2 THEN ValueError ELSE r.error
           /\ output' = IF Len(parts) = 2 /\ r.ok
                        THEN Printed("Added:", name \o <<" ", "=", " ">> \o render(r.expr))
                        ELSE Report(r.error)
           /\ pc' = IF Len(parts) = 2 /\ r.ok THEN "read" ELSE AfterError
           /\ tokens' = r.tokens
           /\ parsed_expr' = IF r.ok THEN r.expr ELSE parsed_expr
    /\ UNCHANGED <<mode, expr, prev_expr, steps, result>>

(* A line with '=': split, strip, parse, add_to_context, print.            *)
Definition(l) ==
    /\ pc = "read"
    /\ ~IsExit(l) /\ ~IsSkipped(l)
    /\ IsDefinition(l)
    /\ text' = l
    /\ LET parts == split(Line(l), "=")
       IN  IF Len(parts) # 2
           THEN /\ error' = ValueError
                /\ output' = Report(ValueError)
                /\ pc' = AfterError
                /\ UNCHANGED <<context, tokens, parsed_expr>>
           ELSE LET name == strip(parts[1])
                    r    == parse_expression(strip(parts[2]))
                IN  IF r.ok
                    THEN /\ parsed_expr' = r.expr
                         /\ tokens' = r.tokens
                         /\ context' = add_to_context(context, name, r.expr)
                         /\ output' = Printed("Added:",
                                         name \o <<" ", "=", " ">> \o render(r.expr))
                         /\ error' = None
                         /\ pc' = "read"
                    ELSE /\ error' = r.error
                         /\ output' = Report(r.error)
                         /\ pc' = AfterError
                         /\ tokens' = <<>>
                         /\ UNCHANGED <<context, parsed_expr>>
    /\ UNCHANGED <<mode, expr, prev_expr, steps, result>>

(* Any other line: parse, print, and call interpret.                       *)
Expression(l) ==
    /\ pc = "read"
    /\ ~IsExit(l) /\ ~IsSkipped(l)
    /\ ~IsDefinition(l)
    /\ text' = l
    /\ LET r == parse_expression(Line(l))
       IN  IF r.ok
           THEN /\ parsed_expr' = r.expr
                /\ tokens' = r.tokens
                /\ output' = Printed("Parsed expression:", render(r.expr))
                /\ error' = None
                /\ expr' = r.expr
                /\ prev_expr' = None
                /\ steps' = 0
                /\ result' = None
                /\ pc' = "interpret"
           ELSE /\ error' = r.error
                /\ output' = Report(r.error)
                /\ pc' = AfterError
                /\ tokens' = <<>>
                /\ UNCHANGED <<parsed_expr, expr, prev_expr, steps, result>>
    /\ UNCHANGED <<mode, context>>

----------------------------------------------------------------------------
(* interpret(expr): one iteration of its loop, and its return.             *)

InterpretStep ==
    /\ pc = "interpret"
    /\ ~expr_eq(expr, prev_expr)
    /\ steps < MaxSteps
    /\ prev_expr' = expr
    /\ expr' = beta_reduce(expr)
    /\ steps' = steps + 1
    /\ UNCHANGED <<mode, context, text, tokens, parsed_expr, error, result,
                   output, pc>>

InterpretReturn ==
    /\ pc = "interpret"
    /\ expr_eq(expr, prev_expr)
    /\ result' = expr
    /\ output' = Printed("Reduced result:", render(expr))
    /\ pc' = IF mode = "call" THEN "returned" ELSE "read"
    /\ UNCHANGED <<mode, context, text, tokens, parsed_expr, error, expr,
                   prev_expr, steps>>

----------------------------------------------------------------------------
(* parse_expression called on a text, and called again on the rendering of *)
(* what it returned.                                                       *)

ParseText ==
    /\ pc = "parse"
    /\ LET r == parse_expression(text)
       IN  /\ parsed_expr' = r.expr
           /\ tokens' = r.tokens
           /\ error' = r.error
           /\ output' = IF r.ok THEN Printed("Parsed expression:", render(r.expr))
                        ELSE output
           /\ pc' = IF r.ok THEN "parsed" ELSE "failed"
    /\ UNCHANGED <<mode, context, text, expr, prev_expr, steps, result>>

Reparse ==
    /\ pc = "parsed"
    /\ LET r == parse_expression(output.text)
       IN  /\ expr' = r.expr
           /\ error' = r.error
           /\ pc' = IF r.ok THEN "reparsed" ELSE "failed_again"
    /\ UNCHANGED <<mode, context, text, tokens, parsed_expr, prev_expr, steps,
                   result, output>>

----------------------------------------------------------------------------
(* Specifications.                                                         *)

(* The program run as a REPL or on a file.                                 *)
Init ==
    /\ mode \in {"repl", "batch"}
    /\ context = EmptyContext
    /\ text = <<>>
    /\ tokens = <<>>
    /\ parsed_expr = None
    /\ error = None
    /\ expr = None
    /\ prev_expr = None
    /\ steps = 0
    /\ result = None
    /\ output = Printed("", <<>>)
    /\ pc = "read"

Next ==
    \/ Exit
    \/ \E l \in ScriptLines : Skip(l)
    \/ \E l \in ScriptLines : Definition(l)
    \/ \E l \in ScriptLines : Expression(l)
    \/ InterpretStep
    \/ InterpretReturn

Spec == Init /\ [][Next]_vars

(* interpret called on an expression, under a context.                     *)
InitReduce ==
    /\ mode = "call"
    /\ context \in Contexts
    /\ parsed_expr \in ReduceTerms
    /\ expr = parsed_expr
    /\ text = <<>>
    /\ tokens = <<>>
    /\ error = None
    /\ prev_expr = None
    /\ steps = 0
    /\ result = None
    /\ output = Printed("", <<>>)
    /\ pc = "interpret"

NextReduce == InterpretStep \/ InterpretReturn

SpecReduce == InitReduce /\ [][NextReduce]_vars

(* parse_expression called on a text.                                      *)
InitParse ==
    /\ mode = "call"
    /\ context = EmptyContext
    /\ text \in ParseTexts
    /\ tokens = <<>>
    /\ parsed_expr = None
    /\ error = None
    /\ expr = None
    /\ prev_expr = None
    /\ steps = 0
    /\ result = None
    /\ output = Printed("", <<>>)
    /\ pc = "parse"

NextParse == ParseText \/ Reparse

SpecParse == InitParse /\ [][NextParse]_vars

----------------------------------------------------------------------------
(* Positions in an expression, for stating the properties.  A path is the  *)
(* sequence of fields ("body", "func", "arg") leading to a sub-expression; *)
(* a Lambda's param is a binder, not a position.                           *)

RECURSIVE Paths(_)
Paths(e) ==
    {<<>>} \cup
    (CASE isLambda(e) -> {<<"body">> \o p : p \in Paths(e.body)}
       [] isApp(e) -> {<<"func">> \o p : p \in Paths(e.func)}
                        \cup {<<"arg">> \o p : p \in Paths(e.arg)}
       [] OTHER -> {})

(* The sub-expression at path p, or None when e has no such position.      *)
RECURSIVE At(_, _)
At(e, p) ==
    IF p = <<>> THEN e
    ELSE IF Head(p) \in DOMAIN e /\ Head(p) # "param" THEN At(e[Head(p)], Tail(p))
    ELSE None

(* The names bound by the abstractions strictly above position p.          *)
RECURSIVE BindersAlong(_, _)
BindersAlong(e, p) ==
    IF p = <<>> \/ Head(p) \notin DOMAIN e THEN {}
    ELSE (IF isLambda(e) THEN {e.param.name} ELSE {})
            \cup BindersAlong(e[Head(p)], Tail(p))

RECURSIVE FreeVars(_)
FreeVars(e) ==
    CASE isVar(e) -> {e.name}
      [] isLambda(e) -> FreeVars(e.body) \ {e.param.name}
      [] isApp(e) -> FreeVars(e.func) \cup FreeVars(e.arg)
      [] OTHER -> {}

(* The names of the Variable occurrences, free or bound.                   *)
VarNames(e) == {At(e, p).name : p \in {q \in Paths(e) : isVar(At(e, q))}}

(* The names of the Abstraction parameters.                                *)
ParamNames(e) == {At(e, p).param.name : p \in {q \in Paths(e) : isLambda(At(e, q))}}

IsBetaRedex(e) == isApp(e) /\ isLambda(e.func)

(* Position p lies under no application of an abstraction: a step that     *)
(* contracts such an application moves or drops what is under it.          *)
UnderNoBetaRedex(e, p) ==
    \A k \in 0..(Len(p) - 1) : ~IsBetaRedex(At(e, SubSeq(p, 1, k)))

(* A step of interpret has just been taken: expr = beta_reduce(prev_expr). *)
Stepped == pc = "interpret" /\ steps >= 1

----------------------------------------------------------------------------
(* C2: substitution is capture-avoiding: after a beta step on              *)
(* (λx. body) v, at every place where v was inserted (a free occurrence of *)
(* x in body), v stands there and no variable free in v is bound by an     *)
(* abstraction of body above that place.                                   *)
C2_CaptureAvoiding ==
    (Stepped /\ IsBetaRedex(prev_expr)) =>
        LET body == prev_expr.func.body
            x    == prev_expr.func.param.name
            v    == prev_expr.arg
        IN  \A p \in Paths(body) :
                (isVar(At(body, p)) /\ At(body, p).name = x
                    /\ x \notin BindersAlong(body, p))
                => /\ At(expr, p) = v
                   /\ FreeVars(v) \cap BindersAlong(expr, p) = {}

----------------------------------------------------------------------------
(* C7: a step never replaces a Variable occurrence that is bound by an     *)
(* enclosing Abstraction of the same name by the context's expression for  *)
(* that name: the occurrence is still there after the step.                *)
C7_BoundNotExpanded ==
    Stepped =>
        \A p \in Paths(prev_expr) :
            LET v == At(prev_expr, p)
            IN  (isVar(v) /\ v.name \in DOMAIN context
                    /\ v.name \in BindersAlong(prev_expr, p)
                    /\ UnderNoBetaRedex(prev_expr, p))
                => At(expr, p) = v

----------------------------------------------------------------------------
(* C9: where a step replaces a free Variable n by the context's expression *)
(* for n under an Abstraction binding y, and that expression has an        *)
(* Abstraction with parameter y, the inserted expression is not the stored *)
(* one verbatim and has no parameter named y.                              *)
C9_ExpansionRenames ==
    Stepped =>
        \A p \in Paths(prev_expr) :
            LET v == At(prev_expr, p)
            IN  (isVar(v) /\ v.name \in DOMAIN context
                    /\ v.name \notin BindersAlong(prev_expr, p)
                    /\ UnderNoBetaRedex(prev_expr, p))
                => \A y \in BindersAlong(prev_expr, p) \cap ParamNames(context[v.name]) :
                        /\ At(expr, p) # context[v.name]
                        /\ y \notin ParamNames(At(expr, p))

----------------------------------------------------------------------------
(* Normal forms and redexes, as the claims define them.                    *)

(* No sub-expression is an Application whose function is an Abstraction.   *)
NormalForm(e) == \A p \in Paths(e) : ~IsBetaRedex(At(e, p))

(* The sub-expression at p is a redex: an application of an abstraction,   *)
(* or a free Variable named in the context.                                *)
IsRedexAt(e, p) ==
    LET s == At(e, p)
    IN  \/ IsBetaRedex(s)
        \/ isVar(s) /\ s.name \in DOMAIN context /\ s.name \notin BindersAlong(e, p)

(* The outermost redexes: the redex positions under no other redex.        *)
OutermostRedexes(e) ==
    {p \in Paths(e) : IsRedexAt(e, p)
                        /\ \A k \in 0..(Len(p) - 1) : ~IsRedexAt(e, SubSeq(p, 1, k))}

(* p is to the left of q: where they part, p goes into func and q into arg. *)
LeftOf(p, q) ==
    \E k \in 1..Len(p) :
        /\ k <= Len(q)
        /\ SubSeq(p, 1, k - 1) = SubSeq(q, 1, k - 1)
        /\ p[k] = "func" /\ q[k] = "arg"

(* The leftmost of the outermost redexes.                                  *)
LeftmostOutermost(e) ==
    CHOOSE p \in OutermostRedexes(e) :
        \A q \in OutermostRedexes(e) : q = p \/ LeftOf(p, q)

(* What contracting the redex r yields.                                    *)
Contract(r) ==
    IF isVar(r) THEN context[r.name] ELSE substitute(r.func.body, r.func.param, r.arg)

(* e with the sub-expression at p replaced by new.                         *)
RECURSIVE ReplaceAt(_, _, _)
ReplaceAt(e, p, new) ==
    IF p = <<>> THEN new
    ELSE [e EXCEPT ![Head(p)] = ReplaceAt(e[Head(p)], Tail(p), new)]

----------------------------------------------------------------------------
(* C3 as stated: interpret of an expression in normal form returns an      *)
(* equal expression, whatever the context holds.                           *)
C3_NormalFormUnchanged ==
    (pc = "returned" /\ NormalForm(parsed_expr)) => expr_eq(result, parsed_expr)

(* C3, amended: interpret of an expression in normal form none of whose    *)
(* Variable occurrences is named in the context takes one step, which      *)
(* leaves the expression as it is, and returns an equal expression.        *)
C3_NormalFormWithoutContextNames ==
    (NormalForm(parsed_expr) /\ VarNames(parsed_expr) \cap DOMAIN context = {})
    => /\ steps <= 1
       /\ expr_eq(expr, parsed_expr)
       /\ pc = "returned" => expr_eq(result, parsed_expr)

C3_Witness ==
    /\ pc = "returned"
    /\ NormalForm(parsed_expr)
    /\ VarNames(parsed_expr) \cap DOMAIN context = {}
    /\ context # EmptyContext
    /\ isLambda(parsed_expr) /\ isApp(parsed_expr.body)
    /\ result = parsed_expr

----------------------------------------------------------------------------
(* C8 as stated: a step on an expression with a redex contracts the        *)
(* leftmost-outermost redex and leaves all the rest as it was.             *)
C8_ExactlyOneRewrite ==
    (Stepped /\ OutermostRedexes(prev_expr) # {}) =>
        LET p == LeftmostOutermost(prev_expr)
        IN  expr = ReplaceAt(prev_expr, p, Contract(At(prev_expr, p)))

(* C8, amended: a step on an expression with a redex contracts the         *)
(* leftmost-outermost redex, and in the same step every other outermost    *)
(* redex as well (an application whose function is not an abstraction has  *)
(* both its function and its argument stepped).                            *)
C8_EveryOutermostRedex ==
    Stepped =>
        \A p \in OutermostRedexes(prev_expr) :
            At(expr, p) = Contract(At(prev_expr, p))

C8_Witness ==
    /\ Stepped
    /\ prev_expr = TwoRedexes
    /\ Cardinality(OutermostRedexes(prev_expr)) = 2
    /\ expr = App(Var(<<"x">>), Var(<<"y">>))

----------------------------------------------------------------------------
(* C1 as stated: with an empty context, interpret of (λx. x x) (λx. x x)   *)
(* never returns.                                                          *)
OmegaText ==
    <<"(", "λ", "x", ".", " ", "x", " ", "x", ")", " ",
      "(", "λ", "x", ".", " ", "x", " ", "x", ")">>

C1_OmegaNeverReturns ==
    ~(text = OmegaText /\ context = EmptyContext /\ result # None)

(* C1, amended: with an empty context, interpret of (λx. x x) (λx. x x)    *)
(* raises no error and returns after one step: the step yields an          *)
(* expression equal to its input, which ends the loop, and the value       *)
(* returned is the self-application itself.                                *)
C1_OmegaReturnsItself ==
    (text = OmegaText /\ context = EmptyContext) =>
        /\ error = None
        /\ parsed_expr = Omega
        /\ steps <= 1
        /\ steps = 1 => (expr = Omega /\ expr_eq(expr, prev_expr))
        /\ pc \in {"interpret", "read", "exited"}
        /\ pc # "interpret" => result = Omega

C1_Witness ==
    /\ text = OmegaText
    /\ context = EmptyContext
    /\ pc = "read"
    /\ steps = 1
    /\ result = Omega
    /\ output = Printed("Reduced result:", render(Omega))

----------------------------------------------------------------------------
(* C4: a definition line that fails (its right-hand side does not parse,   *)
(* or it does not split into a name and an expression) leaves the context  *)
(* as it was; the context changes only by a definition line whose          *)
(* right-hand side parsed, and then by that one entry.                     *)
C4_FailedDefinitionKeepsContext ==
    [][ /\ (pc = "read" /\ InList("=", Line(text')) /\ error' # None)
            => context' = context
        /\ context' # context
            => /\ pc = "read" /\ error' = None
               /\ LET parts == split(Line(text'), "=")
                  IN  /\ Len(parts) = 2
                      /\ parse_expression(strip(parts[2])).ok
                      /\ context' = add_to_context(context, strip(parts[1]),
                                        parse_expression(strip(parts[2])).expr)
      ]_vars

C4_Witness ==
    /\ InList("=", text)
    /\ error # None /\ error.tag = "SyntaxError"
    /\ mode = "repl" /\ pc = "read"
    /\ DOMAIN context = {<<"I">>}
    /\ context[<<"I">>] = Identity
    /\ strip(split(text, "=")[1]) = <<"I">>

----------------------------------------------------------------------------
(* The first call of parse_expression has returned an expression / raised. *)
ParseReturned == pc \in {"parsed", "reparsed", "failed_again"}

ParseFailed == pc = "failed"

TokenTexts(s) == [i \in 1..Len(tokenize(s)) |-> tokenize(s)[i][1]]

(* C5: parse_expression fails on every input (a) without tokens, (b) whose *)
(* last token is λ, (c) in which the token after a λ's parameter is        *)
(* missing or is not '.', or (d) which opens a '(' and the expression      *)
(* parsed after it is not followed by ')'.                                 *)
C5_MalformedInputFails ==
    LET t == TokenTexts(text)
        inner == parse(Tail(tokenize(text)))
    IN  (pc # "parse"
         /\ \/ t = <<>>
            \/ t # <<>> /\ t[Len(t)] = <<"λ">>
            \/ \E i \in 1..Len(t) :
                    /\ t[i] = <<"λ">>
                    /\ i + 1 <= Len(t)
                    /\ (i + 2 > Len(t) \/ t[i + 2] # <<".">>)
            \/ /\ t # <<>> /\ t[1] = <<"(">>
               /\ inner.ok
               /\ (inner.tokens = <<>> \/ inner.tokens[1][1] # <<")">>))
        => (ParseFailed /\ parsed_expr = None)

----------------------------------------------------------------------------
(* C10: when parse_expression returns an expression, no token is left      *)
(* unread and no Variable or parameter is named '(', ')', '.' or 'λ'.      *)
ReservedNames == {<<"(">>, <<")">>, <<".">>, <<"λ">>}

C10_ConsumesEveryToken ==
    ParseReturned =>
        /\ tokens = <<>>
        /\ (VarNames(parsed_expr) \cup ParamNames(parsed_expr)) \cap ReservedNames = {}

----------------------------------------------------------------------------
(* C6: for a fully parenthesized text over one-character identifiers, the  *)
(* rendering of what parse_expression returns parses again, to an equal    *)
(* expression.                                                             *)

IsIdentifier1(tok) == Len(tok) = 1 /\ IsIdentChar(tok[1])

(* The grammar  e ::= IDENT | '(' 'λ' IDENT '.' e ')' | '(' e e ')'  read   *)
(* off a sequence of token texts: what is left after one e, or a failure.  *)
RECURSIVE Parenthesized(_)
Parenthesized(t) ==
    LET No == [ok |-> FALSE, rest |-> <<>>]
        Closed(r) == IF r.ok /\ r.rest # <<>> /\ Head(r.rest) = <<")">>
                     THEN [ok |-> TRUE, rest |-> Tail(r.rest)] ELSE No
    IN  IF t = <<>> THEN No
        ELSE IF IsIdentifier1(t[1]) THEN [ok |-> TRUE, rest |-> Tail(t)]
        ELSE IF t[1] # <<"(">> \/ Len(t) < 2 THEN No
        ELSE IF t[2] = <<"λ">> THEN
            IF Len(t) >= 4 /\ IsIdentifier1(t[3]) /\ t[4] = <<".">>
            THEN Closed(Parenthesized(SubSeq(t, 5, Len(t)))) ELSE No
        ELSE LET f == Parenthesized(Tail(t))
             IN  IF f.ok THEN Closed(Parenthesized(f.rest)) ELSE No

FullyParenthesized(s) ==
    LET r == Parenthesized(TokenTexts(s)) IN r.ok /\ r.rest = <<>>

C6_RenderParseRoundTrip ==
    FullyParenthesized(text) =>
        /\ pc \notin {"failed", "failed_again"}
        /\ pc = "reparsed" => expr_eq(expr, parsed_expr)

C6_Witness ==
    /\ FullyParenthesized(text)
    /\ pc = "reparsed"
    /\ isApp(parsed_expr) /\ isLambda(parsed_expr.func)
    /\ text # output.text
    /\ expr = parsed_expr

=============================================================================
